---- MODULE Spec2Model ----
(***************************************************************************)
(* A model of the doodle crate: the DoodleBuilder (src/src/lib.rs 93-161), *)
(* the backend initialisation init_sdl (232-251), the Doodle run loop      *)
(* (175-196), the Renderer facade (199-230) and the handlers of the        *)
(* example sketch (src/examples/simple.rs).                                *)
(***************************************************************************)
EXTENDS Integers, Sequences, FiniteSets, TLC

VARIABLES
    builder,    \* the DoodleBuilder value, or Absent once build() consumed it
    calls,      \* history of the setter calls made on the builder: <<field, arg>>
    phase,      \* "builder" | "failed" (build returned Err) | "built" | "dropped"
    initLog,    \* the backend initialisation steps build() attempted: <<step, ok>>
    handles,    \* the backend values (Rust owners) that are alive
    window,     \* the window handed to the backend: [title, width, height], or Absent
    buildResult,\* None | "Ok" | the Error variant build() returned
    doodle,     \* the Doodle value [state, fps, setup, draw], or Absent
    renderer,   \* the canvas as the callbacks see it: [color, sets, clears]
    queue,      \* the backend's event queue (EventPump)
    clock,      \* the FpsClock of the current run() [rate, last, now], or Absent
    pc,         \* position of run(): idle, setup, present0, poll, draw, present, tick, done
    cnt,        \* calls made by the current run(): [setup, draw, present, tick]
    life,       \* over the runtime's lifetime: [runs, setup]
    quitSeen,   \* the current run() has drained a quit event
    result,     \* what the last run() returned: None | "Ok"
    flips       \* sign changes of state.change made by draw in the current run()

vars == <<builder, calls, phase, initLog, handles, window, buildResult, doodle,
          renderer, queue, clock, pc, cnt, life, quitSeen, result, flips>>

\* No value: of a string-valued variable, and of a record-valued one.
None == "None"
Absent == [absent |-> TRUE]

\* ------------------------------------------------------------------ bounds
MaxSetterCalls == 2
MaxQueue == 2
MaxFrames == 2
MaxRuns == 2
MaxExampleFrames == 514
MaxTime == 10

\* ------------------------------------------------------------- user state T
\* examples/simple.rs: struct State { change: i16, color: i16 }, #[derive(Default)]
DefaultState == [change |-> 0, color |-> 0]
ExampleState == [change |-> 1, color |-> 0]
NearTopState == [change |-> 1, color |-> 254]

\* i16 arithmetic of a release build (two's complement wrap-around)
Wrap16(x) == ((x + 32768) % 65536) - 32768
\* `x as u8`
AsU8(x) == x % 256

\* ------------------------------------------------------------ the Renderer
\* A Color::RGB(c, c, c) is kept as its grey level c.
FreshRenderer == [color |-> 0, sets |-> 0, clears |-> 0]
set_draw_color(r, c) == [r EXCEPT !.color = c, !.sets = @ + 1]
clear(r) == [r EXCEPT !.clears = @ + 1]

\* ------------------------------------------------------------ the handlers
\* Each handler maps (state, renderer) to the (state, renderer) it leaves.
noop(s, r) == [state |-> s, renderer |-> r]
doc_setup(s, r) == [state |-> s, renderer |-> clear(set_draw_color(r, 100))]
doc_draw(s, r) == [state |-> s, renderer |-> clear(r)]
\* example_draw with the upper bound tested by >= instead of >.
example_draw_ge(s, r) ==
    LET c == AsU8(s.color)
        added == Wrap16(s.color + s.change)
        s2 == IF added >= 255 THEN [color |-> 255, change |-> -1]
              ELSE IF added < 0 THEN [color |-> 0, change |-> 1]
              ELSE [color |-> added, change |-> s.change]
    IN  [state |-> s2, renderer |-> clear(set_draw_color(r, c))]
\* example_draw whose upper branch flips change but keeps the color it computed.
example_draw_no_clamp(s, r) ==
    LET c == AsU8(s.color)
        added == Wrap16(s.color + s.change)
        s2 == IF added > 255 THEN [color |-> added, change |-> -1]
              ELSE IF added < 0 THEN [color |-> 0, change |-> 1]
              ELSE [color |-> added, change |-> s.change]
    IN  [state |-> s2, renderer |-> clear(set_draw_color(r, c))]
example_draw(s, r) ==
    LET c == AsU8(s.color)
        added == Wrap16(s.color + s.change)
        s2 == IF added > 255 THEN [color |-> 255, change |-> -1]
              ELSE IF added < 0 THEN [color |-> 0, change |-> 1]
              ELSE [color |-> added, change |-> s.change]
    IN  [state |-> s2, renderer |-> clear(set_draw_color(r, c))]

Handlers == {"noop", "doc_setup", "doc_draw", "example_setup", "example_draw"}
Call(h, s, r) ==
    CASE h = "noop" -> noop(s, r)
      [] h = "example_setup" -> noop(s, r)
      [] h = "doc_setup" -> doc_setup(s, r)
      [] h = "doc_draw" -> doc_draw(s, r)
      [] h = "example_draw" -> example_draw(s, r)

\* ------------------------------------------------------------- the builder
Fields == {"name", "width", "height", "state", "fps", "setup", "draw"}
\* new() with the defaults of width and height exchanged.
new_swapped == [name |-> "Doodle", state |-> DefaultState, fps |-> 30, width |-> 600,
                height |-> 800, setup |-> "noop", draw |-> "noop"]
new == [name |-> "Doodle", state |-> DefaultState, fps |-> 30, width |-> 800,
        height |-> 600, setup |-> "noop", draw |-> "noop"]

set_name(b, v) == [b EXCEPT !.name = v]
set_fps(b, v) == [b EXCEPT !.fps = v]
\* width() storing into the neighbouring field.
set_width_height(b, v) == [b EXCEPT !.height = v]
set_width(b, v) == [b EXCEPT !.width = v]
set_height(b, v) == [b EXCEPT !.height = v]
set_state(b, v) == [b EXCEPT !.state = v]
set_setup(b, v) == [b EXCEPT !.setup = v]
set_draw(b, v) == [b EXCEPT !.draw = v]

\* The arguments the setters are called with.
NameArgs == {"Test"}
WidthArgs == {600, 800}
HeightArgs == {0, 400}
FpsArgs == {0, 60}
StateArgs == {NearTopState}
SetupArgs == {"doc_setup"}
DrawArgs == {"doc_draw", "example_draw"}

Setter(field, v, b2) ==
    /\ phase = "builder"
    /\ Len(calls) < MaxSetterCalls
    /\ builder' = b2
    /\ calls' = Append(calls, <<field, v>>)
    /\ UNCHANGED <<phase, initLog, handles, window, buildResult, doodle, renderer,
                   queue, clock, pc, cnt, life, quitSeen, result, flips>>

name == \E v \in NameArgs : Setter("name", v, set_name(builder, v))
fps == \E v \in FpsArgs : Setter("fps", v, set_fps(builder, v))
width == \E v \in WidthArgs : Setter("width", v, set_width(builder, v))
height == \E v \in HeightArgs : Setter("height", v, set_height(builder, v))
state == \E v \in StateArgs : Setter("state", v, set_state(builder, v))
setup == \E v \in SetupArgs : Setter("setup", v, set_setup(builder, v))
draw == \E v \in DrawArgs : Setter("draw", v, set_draw(builder, v))

\* ------------------------------------------------------------- init_sdl
\* The seven fallible steps of init_sdl, in source order, the Rust value each
\* one binds, and the Error variant the `?` of each converts its failure to.
Steps == <<"sdl", "image", "video", "window", "canvas", "pump", "ttf">>
NSteps == Len(Steps)
Binding(k) ==
    CASE k = 1 -> "sdl_context"
      [] k = 2 -> "_image_context"
      [] k = 3 -> "video_subsystem"
      [] k = 4 -> "window"
      [] k = 5 -> "canvas"
      [] k = 6 -> "event_pump"
      [] k = 7 -> "ttf_context"
ErrorOf(k) ==
    CASE k = 1 -> "Error"
      [] k = 2 -> "Error"
      [] k = 3 -> "Error"
      [] k = 4 -> "WindowBuildError"
      [] k = 5 -> "IntegerOrSdlError"
      [] k = 6 -> "Error"
      [] k = 7 -> "TtfInitError"

\* window.into_canvas() moves the window into the canvas.
Bind(held, k) ==
    IF k = 5 THEN (held \ {"window"}) \cup {"canvas"} ELSE held \cup {Binding(k)}

\* What leaves init_sdl on success: the tuple (canvas, event_pump, ttf_context).
\* Every other binding goes out of scope at the return and is dropped.
Returned(held) == held \cap {"canvas", "event_pump", "ttf_context"}

\* Steps k..7 of init_sdl with `held` bound so far; `fails` is the set of steps
\* the backend refuses. A `?` on a failure returns at once: the later steps are
\* not run and every binding is dropped.
RECURSIVE InitFrom(_, _, _, _)
\* init_sdl whose failure path keeps what the earlier steps acquired.
InitFrom_leak(k, fails, log, held) ==
    IF k > NSteps
    THEN [ok |-> TRUE, err |-> None, log |-> log, handles |-> Returned(held)]
    ELSE IF k \in fails
    THEN [ok |-> FALSE, err |-> ErrorOf(k), log |-> Append(log, <<Steps[k], FALSE>>),
          handles |-> held]
    ELSE InitFrom(k + 1, fails, Append(log, <<Steps[k], TRUE>>), Bind(held, k))
InitFrom(k, fails, log, held) ==
    IF k > NSteps
    THEN [ok |-> TRUE, err |-> None, log |-> log, handles |-> Returned(held)]
    ELSE IF k \in fails
    THEN [ok |-> FALSE, err |-> ErrorOf(k), log |-> Append(log, <<Steps[k], FALSE>>),
          handles |-> {}]
    ELSE InitFrom(k + 1, fails, Append(log, <<Steps[k], TRUE>>), Bind(held, k))

init_sdl(app_name, w, h, fails) ==
    LET r == InitFrom(1, fails, <<>>, {})
    IN  [ok |-> r.ok, err |-> r.err, log |-> r.log, handles |-> r.handles,
         window |-> IF "canvas" \in r.handles
                    THEN [title |-> app_name, width |-> w, height |-> h]
                    ELSE Absent]

\* The backend resources that are initialised, given the owners alive: the SDL
\* core and the video subsystem are reference counted by the values made from
\* them, the others are released when their one owner is dropped.
Live(held) ==
    {x \in {"sdl"} : held \cap {"sdl_context", "video_subsystem", "window",
                                "canvas", "event_pump"} # {}}
    \cup {x \in {"image"} : "_image_context" \in held}
    \cup {x \in {"video"} : held \cap {"video_subsystem", "window", "canvas"} # {}}
    \cup {x \in {"window"} : held \cap {"window", "canvas"} # {}}
    \cup {x \in {"canvas"} : "canvas" \in held}
    \cup {x \in {"pump"} : "event_pump" \in held}
    \cup {x \in {"ttf"} : "ttf_context" \in held}

\* Renderer::new and DoodleBuilder::build: the Doodle exists only if init_sdl
\* returned Ok; the builder is consumed either way.
Built(b) == [state |-> b.state, fps |-> b.fps, setup |-> b.setup, draw |-> b.draw]

ZeroCnt == [setup |-> 0, draw |-> 0, present |-> 0, tick |-> 0]

build ==
    /\ phase = "builder"
    /\ \E fails \in SUBSET (1..NSteps) :
         LET r == init_sdl(builder.name, builder.width, builder.height, fails)
         IN  /\ initLog' = r.log
             /\ handles' = r.handles
             /\ window' = r.window
             /\ buildResult' = IF r.ok THEN "Ok" ELSE r.err
             /\ phase' = IF r.ok THEN "built" ELSE "failed"
             /\ doodle' = IF r.ok THEN Built(builder) ELSE Absent
    /\ builder' = Absent
    /\ UNCHANGED <<calls, renderer, queue, clock, pc, cnt, life, quitSeen, result,
                   flips>>

\* ------------------------------------------------------------ the event queue
EventKinds == {"Quit", "KeyDown"}

\* The environment queues an event (the window system, the user).
Arrive ==
    /\ phase = "built"
    /\ Len(queue) < MaxQueue
    /\ \E e \in EventKinds : queue' = Append(queue, e)
    /\ UNCHANGED <<builder, calls, phase, initLog, handles, window, buildResult,
                   doodle, renderer, clock, pc, cnt, life, quitSeen, result, flips>>

\* ------------------------------------------------------------ the frame clock
\* The FpsClock of the fps_clock crate, after section 4.3 of the specification.
\* Time is counted in units of 1/Hz second from the construction of the clock;
\* the clock record carries the current time `now` beside the time `last` of
\* the previous tick. A rate of 0 is left without a period.
Hz == 120
Period(rate) == IF rate = 0 THEN 0 ELSE Hz \div rate
FpsClock_new(rate) == [rate |-> rate, last |-> 0, now |-> 0]
\* tick(): sleep what is left of the period since the last tick, if anything,
\* and take the time of the return as the new `last`.
FpsClock_tick(c) ==
    LET due == c.last + Period(c.rate)
        t == IF c.now < due THEN due ELSE c.now
    IN  [c EXCEPT !.now = t, !.last = t]

\* ------------------------------------------------------------- Doodle::run
Backend == <<builder, calls, phase, initLog, handles, window, buildResult>>

\* line 180: run() is entered and makes its clock.
run(maxRuns) ==
    /\ phase = "built"
    /\ pc \in {"idle", "done"}
    /\ life.runs < maxRuns
    /\ clock' = FpsClock_new(doodle.fps)
    /\ pc' = "setup"
    /\ cnt' = ZeroCnt
    /\ life' = [life EXCEPT !.runs = @ + 1]
    /\ quitSeen' = FALSE
    /\ result' = None
    /\ flips' = 0
    /\ UNCHANGED <<Backend, doodle, renderer, queue>>

\* line 181: (self.setup)(&mut self.state, &mut self.renderer)
call_setup ==
    /\ pc = "setup"
    /\ LET o == Call(doodle.setup, doodle.state, renderer)
       IN  /\ doodle' = [doodle EXCEPT !.state = o.state]
           /\ renderer' = o.renderer
    /\ cnt' = [cnt EXCEPT !.setup = @ + 1]
    /\ life' = [life EXCEPT !.setup = @ + 1]
    /\ pc' = "present0"
    /\ UNCHANGED <<Backend, queue, clock, quitSeen, result, flips>>

\* run() without the present() of line 182.
first_present_skipped ==
    /\ pc = "present0"
    /\ pc' = "poll"
    /\ UNCHANGED <<Backend, doodle, renderer, queue, clock, cnt, life, quitSeen,
                   result, flips>>

\* line 182: self.renderer.present()
first_present ==
    /\ pc = "present0"
    /\ cnt' = [cnt EXCEPT !.present = @ + 1]
    /\ pc' = "poll"
    /\ UNCHANGED <<Backend, doodle, renderer, queue, clock, life, quitSeen, result,
                   flips>>

\* lines 184-189: poll_iter yields the next queued event; a Quit breaks out of
\* 'main and run() returns Ok(()) (line 194), any other event is ignored.
\* A match that also ends the loop on a key press.
IsQuit_keys(e) == e \in {"Quit", "KeyDown"}
\* A match without the Quit arm.
IsQuit_never(e) == FALSE
IsQuit(e) == e = "Quit"

\* A Quit that breaks out of the for loop only (`break` without the label).
poll_next_inner_break ==
    /\ pc = "poll"
    /\ queue # <<>>
    /\ queue' = Tail(queue)
    /\ IF IsQuit(Head(queue))
       THEN /\ quitSeen' = TRUE
            /\ pc' = "draw"
            /\ UNCHANGED <<result, clock>>
       ELSE UNCHANGED <<quitSeen, pc, result, clock>>
    /\ UNCHANGED <<Backend, doodle, renderer, cnt, life, flips>>

\* A loop that takes one event per frame (poll_event() instead of poll_iter()).
poll_next_one_per_frame ==
    /\ pc = "poll"
    /\ queue # <<>>
    /\ queue' = Tail(queue)
    /\ IF IsQuit(Head(queue))
       THEN /\ quitSeen' = TRUE
            /\ pc' = "done"
            /\ result' = "Ok"
            /\ clock' = Absent
       ELSE /\ pc' = "draw"
            /\ UNCHANGED <<quitSeen, result, clock>>
    /\ UNCHANGED <<Backend, doodle, renderer, cnt, life, flips>>

poll_next ==
    /\ pc = "poll"
    /\ queue # <<>>
    /\ queue' = Tail(queue)
    /\ IF IsQuit(Head(queue))
       THEN /\ quitSeen' = TRUE
            /\ pc' = "done"
            /\ result' = "Ok"
            /\ clock' = Absent
       ELSE UNCHANGED <<quitSeen, pc, result, clock>>
    /\ UNCHANGED <<Backend, doodle, renderer, cnt, life, flips>>

\* A poll that goes on to draw with events still queued.
poll_end_early ==
    /\ pc = "poll"
    /\ pc' = "draw"
    /\ UNCHANGED <<Backend, doodle, renderer, queue, clock, cnt, life, quitSeen,
                   result, flips>>

\* poll_iter finds the queue empty: the for loop ends.
poll_end ==
    /\ pc = "poll"
    /\ queue = <<>>
    /\ pc' = "draw"
    /\ UNCHANGED <<Backend, doodle, renderer, queue, clock, cnt, life, quitSeen,
                   result, flips>>

\* line 190: (self.draw)(&mut self.state, &mut self.renderer)
Sign(x) == IF x > 0 THEN 1 ELSE IF x < 0 THEN -1 ELSE 0

\* A draw that is handed a copy of the state and whose changes are lost.
call_draw_copy(cap) ==
    /\ pc = "draw"
    /\ cnt.draw < cap
    /\ renderer' = Call(doodle.draw, doodle.state, renderer).renderer
    /\ cnt' = [cnt EXCEPT !.draw = @ + 1]
    /\ pc' = "present"
    /\ UNCHANGED <<Backend, doodle, queue, clock, life, quitSeen, result, flips>>

call_draw(cap) ==
    /\ pc = "draw"
    /\ cnt.draw < cap
    /\ LET o == Call(doodle.draw, doodle.state, renderer)
       IN  /\ doodle' = [doodle EXCEPT !.state = o.state]
           /\ renderer' = o.renderer
           /\ flips' = IF Sign(o.state.change) # Sign(doodle.state.change)
                       THEN flips + 1 ELSE flips
    /\ cnt' = [cnt EXCEPT !.draw = @ + 1]
    /\ pc' = "present"
    /\ UNCHANGED <<Backend, queue, clock, life, quitSeen, result>>

\* A frame that goes back to the poll right after its present().
present_no_tick ==
    /\ pc = "present"
    /\ cnt' = [cnt EXCEPT !.present = @ + 1]
    /\ pc' = "poll"
    /\ UNCHANGED <<Backend, doodle, renderer, queue, clock, life, quitSeen, result,
                   flips>>

\* line 191: self.renderer.present()
present ==
    /\ pc = "present"
    /\ cnt' = [cnt EXCEPT !.present = @ + 1]
    /\ pc' = "tick"
    /\ UNCHANGED <<Backend, doodle, renderer, queue, clock, life, quitSeen, result,
                   flips>>

\* A loop that starts over at the setup call.
tick_resetup ==
    /\ pc = "tick"
    /\ cnt' = [cnt EXCEPT !.tick = @ + 1]
    /\ pc' = "setup"
    /\ UNCHANGED <<Backend, doodle, renderer, queue, clock, life, quitSeen, result,
                   flips>>

\* A loop that counts its frames but never waits for the clock.
tick_no_pacing ==
    /\ pc = "tick"
    /\ cnt' = [cnt EXCEPT !.tick = @ + 1]
    /\ pc' = "poll"
    /\ UNCHANGED <<Backend, doodle, renderer, queue, clock, life, quitSeen, result,
                   flips>>

\* line 192: clock.tick()
tick ==
    /\ pc = "tick"
    /\ clock' = FpsClock_tick(clock)
    /\ cnt' = [cnt EXCEPT !.tick = @ + 1]
    /\ pc' = "poll"
    /\ UNCHANGED <<Backend, doodle, renderer, queue, life, quitSeen, result, flips>>

\* Wall-clock time passes while run() is between two of its steps (the work of
\* a callback, of present(), of the poll).
Elapse ==
    /\ pc \in {"setup", "present0", "poll", "draw", "present", "tick"}
    /\ clock.now < MaxTime
    /\ clock' = [clock EXCEPT !.now = @ + 1]
    /\ UNCHANGED <<Backend, doodle, renderer, queue, pc, cnt, life, quitSeen, result,
                   flips>>

\* The owning scope ends: the Doodle and everything it owns is dropped.
drop ==
    /\ phase = "built"
    /\ pc \in {"idle", "done"}
    /\ phase' = "dropped"
    /\ handles' = {}
    /\ window' = Absent
    /\ doodle' = Absent
    /\ queue' = <<>>
    /\ UNCHANGED <<builder, calls, initLog, buildResult, renderer, clock, pc, cnt,
                   life, quitSeen, result, flips>>

\* ------------------------------------------------------------ specifications
Init ==
    /\ builder = new
    /\ calls = <<>>
    /\ phase = "builder"
    /\ initLog = <<>>
    /\ handles = {}
    /\ window = Absent
    /\ buildResult = None
    /\ doodle = Absent
    /\ renderer = FreshRenderer
    /\ queue = <<>>
    /\ clock = Absent
    /\ pc = "idle"
    /\ cnt = ZeroCnt
    /\ life = [runs |-> 0, setup |-> 0]
    /\ quitSeen = FALSE
    /\ result = None
    /\ flips = 0

Loop(cap, maxRuns) ==
    \/ run(maxRuns)
    \/ call_setup
    \/ first_present
    \/ poll_next
    \/ poll_end
    \/ call_draw(cap)
    \/ present
    \/ tick
    \/ Arrive

Next ==
    \/ name \/ fps \/ width \/ height \/ state \/ setup \/ draw
    \/ build
    \/ Loop(MaxFrames, MaxRuns)
    \/ drop

Spec == Init /\ [][Next]_vars

\* examples/simple.rs main(): the builder chain of lines 11-34, a build() that
\* succeeds (line 36 unwraps it), then run().
ExampleCalls ==
    << <<"name", "Test">>, <<"width", 600>>, <<"height", 400>>, <<"fps", 60>>,
       <<"state", ExampleState>>, <<"setup", "example_setup">>,
       <<"draw", "example_draw">> >>
ExampleBuilder ==
    set_draw(set_setup(set_state(set_fps(set_height(set_width(set_name(new,
        "Test"), 600), 400), 60), ExampleState), "example_setup"), "example_draw")

InitExample ==
    LET r == init_sdl(ExampleBuilder.name, ExampleBuilder.width,
                      ExampleBuilder.height, {})
    IN  /\ builder = Absent
        /\ calls = ExampleCalls
        /\ phase = "built"
        /\ initLog = r.log
        /\ handles = r.handles
        /\ window = r.window
        /\ buildResult = "Ok"
        /\ doodle = Built(ExampleBuilder)
        /\ renderer = FreshRenderer
        /\ queue = <<>>
        /\ clock = Absent
        /\ pc = "idle"
        /\ cnt = ZeroCnt
        /\ life = [runs |-> 0, setup |-> 0]
        /\ quitSeen = FALSE
        /\ result = None
        /\ flips = 0

\* main() calls run() once (line 37).
NextExample == Loop(MaxExampleFrames, 1)

SpecExample == InitExample /\ [][NextExample]_vars

\* A runtime built without failure from builder b after the setter calls h,
\* run() not yet called.
InitBuilt(b, h) ==
    LET r == init_sdl(b.name, b.width, b.height, {})
    IN  /\ builder = Absent
        /\ calls = h
        /\ phase = "built"
        /\ initLog = r.log
        /\ handles = r.handles
        /\ window = r.window
        /\ buildResult = "Ok"
        /\ doodle = Built(b)
        /\ renderer = FreshRenderer
        /\ queue = <<>>
        /\ clock = Absent
        /\ pc = "idle"
        /\ cnt = ZeroCnt
        /\ life = [runs |-> 0, setup |-> 0]
        /\ quitSeen = FALSE
        /\ result = None
        /\ flips = 0

\* One run() of a default runtime, or of one with fps(60), with time passing.
InitClock == InitBuilt(new, <<>>) \/ InitBuilt(set_fps(new, 60), << <<"fps", 60>> >>)
NextClock == Loop(MaxFrames, 1) \/ Elapse
SpecClock == InitClock /\ [][NextClock]_vars

\* One run() of a default runtime, or of the example's, in which the steps of
\* the loop are always taken in the end (the thread of run() keeps running) and
\* the drain of the poll step is not overtaken by arriving events.
ArriveBetweenPolls == pc # "poll" /\ Arrive
InitLive == InitBuilt(new, <<>>) \/ InitBuilt(ExampleBuilder, ExampleCalls)
NextLive ==
    \/ run(1)
    \/ call_setup
    \/ first_present
    \/ poll_next
    \/ poll_end
    \/ call_draw(MaxFrames)
    \/ present
    \/ tick
    \/ ArriveBetweenPolls
Fairness ==
    /\ WF_vars(call_setup)
    /\ WF_vars(first_present)
    /\ WF_vars(poll_next)
    /\ WF_vars(poll_end)
    /\ WF_vars(call_draw(MaxFrames))
    /\ WF_vars(present)
    /\ WF_vars(tick)
SpecLive == InitLive /\ [][NextLive]_vars /\ Fairness

\* ------------------------------------------------------------------ claims
Running == pc \in {"setup", "present0", "poll", "draw", "present", "tick"}
AfterSetup == pc \in {"present0", "poll", "draw", "present", "tick", "done"}
\* The step of run() that takes the event at the head of the queue.
Polls(e) == pc = "poll" /\ queue # <<>> /\ Head(queue) = e /\ queue' = Tail(queue)

\* C1: in every execution of run(), setup is invoked exactly once and that
\* invocation is over before the first draw; a run that finds quit at its first
\* poll has run setup once and draw not at all.
C1_SetupOnceBeforeDraw ==
    /\ cnt.setup <= 1
    /\ pc = "setup" => cnt.setup = 0 /\ cnt.draw = 0
    /\ AfterSetup => cnt.setup = 1
    /\ cnt.draw > 0 => cnt.setup = 1
    /\ (pc = "done" /\ cnt.present = 1) => cnt.draw = 0
C1_Witness == pc = "done" /\ cnt.setup = 1 /\ cnt.draw >= 1

\* C2: present() is called once between setup and the first draw and once after
\* every draw: the loop's presents number draws or draws + 1 at every point,
\* draws + 1 whenever a draw is about to start and when run() has returned.
C2_PresentOrdering ==
    /\ cnt.present \in {cnt.draw, cnt.draw + 1}
    /\ pc \in {"setup", "present0"} => cnt.present = 0 /\ cnt.draw = 0
    /\ pc \in {"poll", "draw", "tick", "done"} => cnt.present = cnt.draw + 1
    /\ pc = "present" => cnt.present = cnt.draw
C2_Witness == pc = "done" /\ cnt.draw >= 1 /\ cnt.present = cnt.draw + 1

\* C3: the poll step that takes a quit event ends run() with Ok(()) at once,
\* whatever else is queued, and after it no draw, present or tick is made.
C3_QuitStops ==
    /\ [](quitSeen => pc = "done" /\ result = "Ok")
    /\ [][Polls("Quit") => pc' = "done" /\ result' = "Ok" /\ cnt' = cnt]_vars
    /\ [][(pc = "done" /\ pc' = "done") => cnt' = cnt /\ result' = result]_vars
C3_Witness == quitSeen /\ pc = "done" /\ result = "Ok" /\ cnt.draw >= 1 /\ queue # <<>>

\* C4: run() returns only by the poll step taking a quit event; a poll step
\* that takes any other event leaves the position of the loop, the user state,
\* the calls made and the surface as they were; no callback ends the loop.
C4_OnlyQuitStops ==
    /\ [](pc = "done" => quitSeen)
    /\ [][(pc # "done" /\ pc' = "done") => Polls("Quit")]_vars
    /\ [][(\E e \in EventKinds \ {"Quit"} : Polls(e))
            => pc' = "poll" /\ doodle' = doodle /\ cnt' = cnt
               /\ renderer' = renderer /\ result' = result]_vars
C4_Witness == pc = "done" /\ quitSeen /\ cnt.draw >= 1 /\ cnt.tick >= 1

\* C5: over the lifetime of one runtime, across every call of run(), setup is
\* invoked exactly once and nothing is invoked once run() has returned.
C5_SetupOncePerLifetime ==
    /\ life.setup <= 1
    /\ life.runs >= 1 /\ AfterSetup => life.setup = 1

\* C6: build() is all or nothing: a failing step makes it return Err with no
\* later step attempted, no Doodle, and nothing of the backend left
\* initialised, no window in particular; with every step succeeding it returns
\* the Doodle with its canvas, event pump and font context initialised.
Prefix(log) == \A i \in 1..Len(log) : log[i][1] = Steps[i]
C6_BuildAllOrNothing ==
    /\ phase = "builder" => doodle = Absent /\ handles = {} /\ buildResult = None
    /\ phase = "failed" =>
         /\ buildResult \notin {None, "Ok"}
         /\ doodle = Absent
         /\ Live(handles) = {}
         /\ window = Absent
         /\ Len(initLog) >= 1 /\ Prefix(initLog)
         /\ \A i \in 1..Len(initLog) : initLog[i][2] = (i < Len(initLog))
    /\ phase = "built" =>
         /\ buildResult = "Ok"
         /\ doodle # Absent
         /\ Len(initLog) = NSteps /\ Prefix(initLog)
         /\ \A i \in 1..Len(initLog) : initLog[i][2]
         /\ {"window", "canvas", "pump", "ttf"} \subseteq Live(handles)
         /\ window # Absent
C6_Witness == phase = "failed" /\ Len(initLog) = 6 /\ buildResult = "Error"

\* C7: every runtime a successful build() produced has a positive width, a
\* positive height and a positive fps, and no frame clock is made with rate 0.
C7_PositiveConfig ==
    /\ phase = "built" => doodle.fps > 0 /\ window.width > 0 /\ window.height > 0
    /\ clock # Absent => clock.rate > 0

\* C8: each field of the builder is the argument of the last call of its
\* setter, or the default if there was none, and a successful build() hands
\* state, fps, setup and draw to the Doodle and name, width and height to the
\* window.
LastCall(f) ==
    LET idx == {i \in 1..Len(calls) : calls[i][1] = f}
    IN  IF idx = {} THEN 0 ELSE CHOOSE i \in idx : \A j \in idx : j <= i
Configured(f) == IF LastCall(f) = 0 THEN new[f] ELSE calls[LastCall(f)][2]
C8_LastSetterWins ==
    /\ phase = "builder" => \A f \in Fields : builder[f] = Configured(f)
    /\ phase = "built" =>
         /\ doodle.fps = Configured("fps")
         /\ doodle.setup = Configured("setup")
         /\ doodle.draw = Configured("draw")
         /\ life.runs = 0 => doodle.state = Configured("state")
         /\ window = [title |-> Configured("name"), width |-> Configured("width"),
                      height |-> Configured("height")]
C8_Witness ==
    /\ phase = "built"
    /\ calls = << <<"width", 800>>, <<"width", 600>> >>
    /\ window.width = 600

\* C9: with no setter called the builder holds 800 x 600, 30 fps, the default
\* state and no-op callbacks: the runtime built from it keeps the default
\* state and makes no set_draw_color or clear call, however many frames it runs.
C9_Defaults ==
    calls = <<>> =>
      /\ phase = "builder" =>
           /\ builder.width = 800 /\ builder.height = 600 /\ builder.fps = 30
           /\ builder.state = [change |-> 0, color |-> 0]
      /\ phase = "built" =>
           /\ window.width = 800 /\ window.height = 600 /\ doodle.fps = 30
           /\ doodle.state = [change |-> 0, color |-> 0]
           /\ renderer.sets = 0 /\ renderer.clears = 0
C9_Witness ==
    calls = <<>> /\ phase = "built" /\ pc = "done" /\ cnt.draw >= 2 /\ life.runs >= 2

\* C10: the example sketch counts color up by one per frame from 0; the 256th
\* frame (index 255) clamps it to 255 and makes the one sign change of change.
C10_ExampleRamp ==
    /\ cnt.draw <= 255 => doodle.state = [change |-> 1, color |-> cnt.draw] /\ flips = 0
    /\ cnt.draw = 256 => doodle.state = [change |-> -1, color |-> 255] /\ flips = 1
C10_Witness ==
    cnt.draw = 256 /\ doodle.state = [change |-> -1, color |-> 255] /\ flips = 1

\* C11: every tick() of the loop returns no earlier than one period after the
\* previous tick() returned (after the clock was made, for the first), so N
\* frames take at least N periods; a tick() that is already late returns without
\* sleeping, and the next period is counted from that return, not from a schedule.
Ticks == cnt'.tick = cnt.tick + 1
C11_Pacing ==
    /\ [](clock # Absent => clock.now >= cnt.tick * Period(clock.rate))
    /\ [][Ticks => /\ clock'.now >= clock.last + Period(clock.rate)
                   /\ clock'.last = clock'.now]_vars
    /\ [][(Ticks /\ clock.now >= clock.last + Period(clock.rate))
            => clock'.now = clock.now]_vars
C11_Witness ==
    /\ clock # Absent
    /\ cnt.tick = 2
    /\ clock.last = clock.now
    /\ clock.now > 2 * Period(clock.rate)

\* C12: the Error variant of a failed build() tells which subsystem failed:
\* the core/windowing subsystem, the image subsystem, the rendering context and
\* the font subsystem never share a variant; a rejected window build gives
\* WindowBuildError and a failed canvas build IntegerOrSdlError.
Subsystem(k) ==
    CASE Steps[k] \in {"sdl", "video", "pump"} -> "core"
      [] Steps[k] = "image" -> "image"
      [] Steps[k] = "window" -> "window"
      [] Steps[k] = "canvas" -> "rendering"
      [] Steps[k] = "ttf" -> "font"
C12_DistinctErrorKinds ==
    phase = "failed" =>
      LET k == Len(initLog)
      IN  /\ \A j \in 1..NSteps :
                ErrorOf(j) = buildResult => Subsystem(j) = Subsystem(k)
          /\ Steps[k] = "window" => buildResult = "WindowBuildError"
          /\ Steps[k] = "canvas" => buildResult = "IntegerOrSdlError"

\* C13 as stated: whenever the poll step ends, to draw or to return, every
\* queued event has been removed from the queue.
C13_AllDrained ==
    [][(pc = "poll" /\ pc' \in {"draw", "done"}) => queue' = <<>>]_vars

\* C13 as amended: the poll step goes on to draw only with the queue empty;
\* it takes the events in queue order; when it ends the loop it has removed
\* the quit event and what was ahead of it, and what is queued behind the quit
\* event stays in the queue.
C13_DrainedUpToQuit ==
    /\ [][(pc = "poll" /\ pc' = "draw") => queue = <<>> /\ queue' = <<>>]_vars
    /\ [][(pc = "poll" /\ pc' = "done")
            => Head(queue) = "Quit" /\ queue' = Tail(queue)]_vars
    /\ [][(pc = "poll" /\ pc' = "poll" /\ queue' # queue)
            => \/ \E e \in EventKinds : queue' = Append(queue, e)
               \/ queue # <<>> /\ Head(queue) # "Quit" /\ queue' = Tail(queue)]_vars
C13_Witness ==
    pc = "done" /\ quitSeen /\ cnt.draw >= 1 /\ queue = <<"KeyDown", "Quit">>

\* C14: the steps of the loop come in the order poll, draw, present, tick, each
\* once per iteration: the ticks made equal the draws made at every poll, draw
\* entry and return, are one behind between a draw and its tick, and there is
\* no tick before the first draw nor in the iteration that ends the loop.
Order ==
    { <<"idle", "setup">>, <<"done", "setup">>, <<"setup", "present0">>,
      <<"present0", "poll">>, <<"poll", "draw">>, <<"poll", "done">>,
      <<"draw", "present">>, <<"present", "tick">>, <<"tick", "poll">> }
C14_LoopOrder ==
    /\ [](/\ pc \in {"idle", "setup", "present0"} => cnt.tick = 0 /\ cnt.draw = 0
          /\ pc \in {"poll", "draw", "done"} => cnt.tick = cnt.draw
          /\ pc \in {"present", "tick"} => cnt.tick + 1 = cnt.draw)
    /\ [][pc' # pc => <<pc, pc'>> \in Order]_vars
    /\ [][(pc = "draw" /\ pc' # pc) => cnt' = [cnt EXCEPT !.draw = @ + 1]]_vars
    /\ [][(pc = "present" /\ pc' # pc) => cnt' = [cnt EXCEPT !.present = @ + 1]]_vars
    /\ [][(pc = "tick" /\ pc' # pc) => cnt' = [cnt EXCEPT !.tick = @ + 1]]_vars
    /\ [][(pc = "poll" /\ pc' # pc) => cnt' = cnt]_vars
C14_Witness == pc = "done" /\ cnt.draw = 2 /\ cnt.tick = 2 /\ cnt.present = 3

\* C15: the user state is changed by the callbacks only: setup receives the
\* configured state, every draw the state the previous callback left, and after
\* k draws of the first run() the state is draw applied k times to what setup
\* made of the configured state; poll, present and tick leave it alone.
RECURSIVE Frames(_, _, _, _)
Frames(k, h, s, r) ==
    IF k = 0 THEN [state |-> s, renderer |-> r]
    ELSE LET o == Call(h, s, r) IN Frames(k - 1, h, o.state, o.renderer)
Threaded(k) ==
    LET o == Call(doodle.setup, Configured("state"), FreshRenderer)
    IN  Frames(k, doodle.draw, o.state, o.renderer)
C15_StateThreaded ==
    /\ []((phase = "built" /\ life.runs = 1 /\ pc = "setup")
            => doodle.state = Configured("state"))
    /\ []((phase = "built" /\ life.runs = 1 /\ AfterSetup)
            => /\ doodle.state = Threaded(cnt.draw).state
               /\ renderer = Threaded(cnt.draw).renderer)
    /\ [][(phase = "built" /\ phase' = "built" /\ doodle' # doodle)
            => pc \in {"setup", "draw"} /\ pc' # pc]_vars
    /\ [][(pc = "draw" /\ pc' = "present")
            => doodle'.state = Call(doodle.draw, doodle.state, renderer).state]_vars
C15_Witness ==
    /\ phase = "built" /\ life.runs = 1 /\ pc = "done" /\ cnt.draw = 2
    /\ doodle.state = [change |-> -1, color |-> 255]

\* C16: once a quit event is queued the loop begins at most one more draw, the
\* one whose poll step had already ended; a quit event queued before run() or
\* during setup or the first present lets no draw begin at all.
QuitQueued == \E i \in 1..Len(queue) : queue[i] = "Quit"
C16_QuitWithinOneFrame ==
    /\ [][(QuitQueued /\ phase' = "built")
            => /\ pc # "draw" => pc' # "draw"
               /\ pc' # "done" => QuitQueued'
               /\ cnt'.draw <= cnt.draw + 1]_vars
    /\ [][(QuitQueued /\ phase' = "built"
             /\ pc \in {"idle", "done", "setup", "present0", "poll"})
            => /\ cnt'.draw = IF pc' = "setup" THEN 0 ELSE cnt.draw
               /\ pc' \in {"idle", "done", "setup", "present0", "poll"}]_vars
C16_Witness == QuitQueued /\ pc = "tick" /\ cnt.draw >= 1

C18_ResourcesStayInitialised ==
    phase = "built" =>
      \A i \in 1..Len(initLog) : initLog[i][2] => Steps[i] \in Live(handles)

\* C19: in the example sketch color stays within 0..255 and change is 1 or -1
\* after setup and after every draw, so `color as u8` loses nothing, color +
\* change does not overflow an i16, and the grey level a draw sets is the color
\* the frame before it left.
C19_ExampleRange ==
    /\ [](/\ doodle.state.color \in 0..255
          /\ doodle.state.change \in {1, -1}
          /\ AsU8(doodle.state.color) = doodle.state.color
          /\ Wrap16(doodle.state.color + doodle.state.change)
               = doodle.state.color + doodle.state.change)
    /\ [][cnt'.draw = cnt.draw + 1 => renderer'.color = doodle.state.color]_vars
C19_Witness == cnt.draw = 513 /\ doodle.state = [change |-> 1, color |-> 1]

====
